---- MODULE Spec2Model ----
(***************************************************************************)
(* A model of package fs (plateausnetwork/fs): the Path value type, the    *)
(* file opening routine, the directory walker and the recursive copier.    *)
(*                                                                         *)
(* Path strings are sequences of one-character strings, so that the        *)
(* lexical routines (Clean, Join, Dir, Base, strings.Replace) are computed *)
(* character by character as the Go library computes them.  The            *)
(* filesystem is a function from keys (the sequence of names leading from  *)
(* the working directory to a node) to nodes.  The process runs with the   *)
(* filesystem's root as its working directory, there are no symbolic       *)
(* links, and the process owns every node.                                 *)
(***************************************************************************)
EXTENDS Integers, Sequences, FiniteSets, TLC

VARIABLES fs, fs0, pc, call, stack, visited, ncopy, result, count, nlist,
          handle, data, nopen

vars == <<fs, fs0, pc, call, stack, visited, ncopy, result, count, nlist,
          handle, data, nopen>>

(***************************************************************************)
(* Bounds of the model.                                                    *)
(***************************************************************************)
\* the largest number of nodes (files and directories) of an initial tree
MaxNodes == 4
\* the largest index of a byte-stream copy that the environment may fail
MaxFault == 2
\* the largest index of a visitor invocation that may return an error
MaxPlan == 2
\* the largest index of a directory listing that the environment may fail
MaxListFault == 2
\* the largest number of nodes of a tree the file operations start on
MaxFileNodes == 2
\* the largest number of bytes written through one handle
MaxWrite == 2
\* the largest size of a file the writes may reach
MaxSize == 3
\* the largest length of a fragment handed to Join
MaxFrag == 3

\* Body applied to the value of x: the value is computed once, before Body
\* uses it
With(x, Body(_)) == CHOOSE r \in {Body(v) : v \in {x}} : TRUE

(***************************************************************************)
(* Characters and strings.                                                 *)
(***************************************************************************)
Sep == "/"

\* the characters of the model in byte order ('.' = 46, '/' = 47, letters)
CharOrder == <<" ", ".", "/", "a", "b">>

CharRank(c) == CHOOSE i \in 1..Len(CharOrder) : CharOrder[i] = c

\* s < t in the byte-wise lexical order directory listings are sorted by
RECURSIVE StrLess(_, _)
StrLess(s, t) ==
    IF t = <<>> THEN FALSE
    ELSE IF s = <<>> THEN TRUE
    ELSE IF Head(s) = Head(t) THEN StrLess(Tail(s), Tail(t))
    ELSE CharRank(Head(s)) < CharRank(Head(t))

\* the segments of s between separators, empty segments included
RECURSIVE Split(_)
Split(s) ==
    IF s = <<>> THEN << <<>> >>
    ELSE LET rest == Split(Tail(s))
         IN  IF Head(s) = Sep THEN << <<>> >> \o rest
             ELSE << <<Head(s)>> \o Head(rest) >> \o Tail(rest)

\* strings.Join(segs, "/")
RECURSIVE JoinSegs(_)
JoinSegs(segs) ==
    IF segs = <<>> THEN <<>>
    ELSE IF Len(segs) = 1 THEN segs[1]
    ELSE segs[1] \o <<Sep>> \o JoinSegs(Tail(segs))

DotDot == <<".", ".">>

\* the element stack filepath.Clean builds while it scans the path
RECURSIVE CleanFold(_, _, _)
CleanFold(segs, out, rooted) ==
    IF segs = <<>> THEN out
    ELSE LET c == Head(segs)
             rest == Tail(segs)
         IN  IF c = <<>> \/ c = <<".">> THEN CleanFold(rest, out, rooted)
             ELSE IF c = DotDot
             THEN IF out # <<>> /\ out[Len(out)] # DotDot
                  THEN CleanFold(rest, SubSeq(out, 1, Len(out) - 1), rooted)
                  ELSE IF rooted THEN CleanFold(rest, out, rooted)
                  ELSE CleanFold(rest, Append(out, c), rooted)
             ELSE CleanFold(rest, Append(out, c), rooted)

\* filepath.Clean
Clean(p) ==
    IF p = <<>> THEN <<".">>
    ELSE With(JoinSegs(CleanFold(Split(p), <<>>, p[1] = Sep)), LAMBDA body :
         IF p[1] = Sep THEN <<Sep>> \o body
         ELSE IF body = <<>> THEN <<".">> ELSE body)

\* a join that cleans its receiver and appends the other element as it is
JoinCleanFirst(p, other) == Clean(p) \o <<Sep>> \o other

\* filepath.Join(p, other)
Join(p, other) ==
    IF p # <<>> THEN Clean(p \o <<Sep>> \o other)
    ELSE IF other # <<>> THEN Clean(other)
    ELSE <<>>

\* Path.JoinP
JoinP(p, other) == Join(p, other)

\* the index of the last separator of p, 0 when there is none
RECURSIVE LastSep(_)
LastSep(p) ==
    IF p = <<>> THEN 0
    ELSE IF p[Len(p)] = Sep THEN Len(p)
    ELSE LastSep(SubSeq(p, 1, Len(p) - 1))

\* filepath.Dir
Parent(p) == Clean(SubSeq(p, 1, LastSep(p)))

\* p without its trailing separators
RECURSIVE StripSeps(_)
StripSeps(p) ==
    IF p # <<>> /\ p[Len(p)] = Sep THEN StripSeps(SubSeq(p, 1, Len(p) - 1))
    ELSE p

\* filepath.Base
Basename(p) ==
    IF p = <<>> THEN <<".">>
    ELSE With(StripSeps(p), LAMBDA q :
         With(SubSeq(q, LastSep(q) + 1, Len(q)), LAMBDA r :
         IF r = <<>> THEN <<Sep>> ELSE r))

\* fs.Dirname
Dirname(p) == Parent(p)

\* strings.Index(s, old) + 1, 0 when old does not occur in s
RECURSIVE IndexFrom(_, _, _)
IndexFrom(s, old, i) ==
    IF i + Len(old) - 1 > Len(s) THEN 0
    ELSE IF SubSeq(s, i, i + Len(old) - 1) = old THEN i
    ELSE IndexFrom(s, old, i + 1)

\* strings.Replace(s, old, new, 1)
Replace1(s, old, new) ==
    With(IndexFrom(s, old, 1), LAMBDA i :
    IF i = 0 THEN s
    ELSE SubSeq(s, 1, i - 1) \o new \o SubSeq(s, i + Len(old), Len(s)))

\* strings.TrimSpace
RECURSIVE TrimLeft(_)
TrimLeft(s) == IF s # <<>> /\ Head(s) = " " THEN TrimLeft(Tail(s)) ELSE s

RECURSIVE TrimRight(_)
TrimRight(s) ==
    IF s # <<>> /\ s[Len(s)] = " " THEN TrimRight(SubSeq(s, 1, Len(s) - 1)) ELSE s

TrimSpace(s) == TrimRight(TrimLeft(s))

\* Path.Empty
Empty(p) == TrimSpace(p) = <<>>

(***************************************************************************)
(* The filesystem.  A node is a directory or a regular file; a file has a  *)
(* content (a sequence of bytes) and both have permission bits (a set).    *)
(***************************************************************************)
\* 0644, 0755 and 0400 as sets of permission bits
defaultFileMode == {"ur", "uw", "gr", "or"}

defaultDirMode == {"ur", "uw", "ux", "gr", "gx", "or", "ox"}

ownerReadMode == {"ur"}

\* 0600, the mode of a file its owner keeps private
privateFileMode == {"ur", "uw"}

\* the process's file mode creation mask (022)
Umask == {"gw", "ow"}

NodeDir(mode) == [kind |-> "dir", content |-> <<>>, mode |-> mode]

NodeFile(content, mode) == [kind |-> "file", content |-> content, mode |-> mode]

\* os.Stat answers this when the path does not resolve
NoInfo == [kind |-> "none", content |-> <<>>, mode |-> {}]

NoKey == <<"?">>

\* the outcome of an operation on the filesystem f that failed with err;
\* opens counts the calls of os.OpenFile the operation made
Failed(f, err) ==
    [fs |-> f, err |-> err, key |-> NoKey, copied |-> FALSE, to |-> <<>>, opens |-> 0]

\* the outcome of an operation that succeeded on the node at key
Done(f, key) ==
    [fs |-> f, err |-> "nil", key |-> key, copied |-> FALSE, to |-> <<>>, opens |-> 0]

NonEmpty(c) == c # <<>>

\* the names of p the kernel walks: empty segments dropped, and a trailing
\* separator demands a directory like a final "."
Components(p) ==
    SelectSeq(Split(p), NonEmpty)
        \o (IF p # <<>> /\ p[Len(p)] = Sep THEN << <<".">> >> ELSE <<>>)

\* the kernel's path walk from the node cur along comps
RECURSIVE Lookup(_, _, _)
Lookup(f, cur, comps) ==
    IF comps = <<>> THEN Done(f, cur)
    ELSE IF f[cur].kind # "dir" THEN Failed(f, "ENOTDIR")
    ELSE IF Head(comps) = <<".">> THEN Lookup(f, cur, Tail(comps))
    ELSE IF Head(comps) = DotDot
    THEN Lookup(f, IF cur = <<>> THEN cur ELSE SubSeq(cur, 1, Len(cur) - 1), Tail(comps))
    ELSE IF Append(cur, Head(comps)) \in DOMAIN f
    THEN Lookup(f, Append(cur, Head(comps)), Tail(comps))
    ELSE Failed(f, "ENOENT")

\* the node a path string names (stat(2); there are no symbolic links, so
\* lstat(2) is the same)
Namei(f, p) == IF p = <<>> THEN Failed(f, "ENOENT") ELSE Lookup(f, <<>>, Components(p))

\* Path.Info
Info(f, p) == With(Namei(f, p), LAMBDA r : IF r.err = "nil" THEN f[r.key] ELSE NoInfo)

\* Path.Exists
Exists(f, p) == Info(f, p) # NoInfo

\* Path.FileExists
FileExists(f, p) == Info(f, p).kind = "file"

\* Path.DirExists
DirExists(f, p) == Info(f, p).kind = "dir"

\* the key of the entry p names in its directory, for a call that makes the
\* entry: the kernel's walk to the last name of p.  "." and ".." name a
\* directory that exists; the answer is then the key NoKey with err "nil"
LookupEntry(f, p) ==
    With(SelectSeq(Split(p), NonEmpty), LAMBDA comps :
    IF p = <<>> THEN Failed(f, "ENOENT")
    ELSE IF comps = <<>> THEN Done(f, NoKey)
    ELSE With(Lookup(f, <<>>, SubSeq(comps, 1, Len(comps) - 1)), LAMBDA r :
         IF r.err # "nil" THEN r
         ELSE IF f[r.key].kind # "dir" THEN Failed(f, "ENOTDIR")
         ELSE IF comps[Len(comps)] \in {<<".">>, DotDot} THEN Done(f, NoKey)
         ELSE Done(f, Append(r.key, comps[Len(comps)]))))

\* os.OpenFile(p, O_RDONLY, mode)
OpenRead(f, p) ==
    With(Namei(f, p), LAMBDA r :
    IF r.err # "nil" THEN r
    ELSE IF "ur" \notin f[r.key].mode THEN Failed(f, "EACCES")
    ELSE r)

\* os.OpenFile opening an existing file for writing without O_TRUNC
OpenWriteNoTrunc(f, p, flag, mode) ==
    With(LookupEntry(f, p), LAMBDA r :
    IF r.err # "nil" THEN r
    ELSE IF r.key = NoKey THEN Failed(f, "EISDIR")
    ELSE IF r.key \in DOMAIN f
    THEN IF f[r.key].kind = "dir" THEN Failed(f, "EISDIR")
         ELSE IF p[Len(p)] = Sep THEN Failed(f, "EISDIR")
         ELSE IF "uw" \notin f[r.key].mode THEN Failed(f, "EACCES")
         ELSE r
    ELSE IF p[Len(p)] = Sep THEN Failed(f, "EISDIR")
    ELSE Done(f @@ (r.key :> NodeFile(<<>>, mode \ Umask)), r.key))

\* os.OpenFile(p, O_WRONLY|O_CREATE|O_TRUNC, mode) when flag is "create",
\* os.OpenFile(p, O_WRONLY|O_CREATE|O_APPEND, mode) when it is "append"
OpenWrite(f, p, flag, mode) ==
    With(LookupEntry(f, p), LAMBDA r :
    IF r.err # "nil" THEN r
    ELSE IF r.key = NoKey THEN Failed(f, "EISDIR")
    ELSE IF r.key \in DOMAIN f
    THEN IF f[r.key].kind = "dir" THEN Failed(f, "EISDIR")
         ELSE IF p[Len(p)] = Sep THEN Failed(f, "EISDIR")
         ELSE IF "uw" \notin f[r.key].mode THEN Failed(f, "EACCES")
         ELSE IF flag = "create" THEN Done([f EXCEPT ![r.key].content = <<>>], r.key)
         ELSE r
    ELSE IF p[Len(p)] = Sep THEN Failed(f, "EISDIR")
    ELSE Done(f @@ (r.key :> NodeFile(<<>>, mode \ Umask)), r.key))

\* os.OpenFile(p, flag, mode); flag is "open" for openFileFlag, "create" for
\* createFileFlag and "append" for appendFileFlag
OpenFile(f, p, flag, mode) ==
    IF flag = "open" THEN OpenRead(f, p) ELSE OpenWrite(f, p, flag, mode)

\* mkdir(2)
Mkdir(f, p, mode) ==
    With(LookupEntry(f, p), LAMBDA r :
    IF r.err # "nil" THEN r
    ELSE IF r.key = NoKey \/ r.key \in DOMAIN f THEN Failed(f, "EEXIST")
    ELSE Done(f @@ (r.key :> NodeDir(mode \ Umask)), r.key))

\* os.MkdirAll(p, mode)
RECURSIVE osMkdirAll(_, _, _)
osMkdirAll(f, p, mode) ==
    With(Info(f, p), LAMBDA dir :
    IF dir # NoInfo THEN (IF dir.kind = "dir" THEN Done(f, NoKey) ELSE Failed(f, "ENOTDIR"))
    ELSE With(LastSep(StripSeps(p)), LAMBDA j :
         With(IF j > 1 THEN osMkdirAll(f, SubSeq(p, 1, j - 1), mode) ELSE Done(f, NoKey),
              LAMBDA up :
         IF up.err # "nil" THEN up
         ELSE With(Mkdir(up.fs, p, mode), LAMBDA m :
              IF m.err # "nil" /\ DirExists(m.fs, p) THEN Done(m.fs, NoKey) ELSE m))))

\* Path.MkdirAll
MkdirAll(f, p) == osMkdirAll(f, p, defaultDirMode)

\* open testing for a directory before it tests for the empty path
openDirFirst(f, p, flag, mode) ==
    IF DirExists(f, p) THEN Failed(f, "ErrPathIsDirectory")
    ELSE IF Empty(p) THEN Failed(f, "ErrPathIsEmpty")
    ELSE With(OpenFile(f, p, flag, mode), LAMBDA r :
         IF r.err = "nil" \/ r.err # "ENOENT" THEN [r EXCEPT !.opens = 1]
         ELSE With(MkdirAll(f, Parent(Clean(p))), LAMBDA m :
              IF m.err # "nil" THEN [m EXCEPT !.opens = 1]
              ELSE [OpenFile(m.fs, p, flag, mode) EXCEPT !.opens = 2]))

\* open: the shared opening routine of Open, Create, Append and copyFiles
open(f, p, flag, mode) ==
    IF Empty(p) THEN Failed(f, "ErrPathIsEmpty")
    ELSE IF DirExists(f, p) THEN Failed(f, "ErrPathIsDirectory")
    ELSE With(OpenFile(f, p, flag, mode), LAMBDA r :
         IF r.err = "nil" \/ r.err # "ENOENT" THEN [r EXCEPT !.opens = 1]
         ELSE With(MkdirAll(f, Parent(Clean(p))), LAMBDA m :
              IF m.err # "nil" THEN [m EXCEPT !.opens = 1]
              ELSE [OpenFile(m.fs, p, flag, mode) EXCEPT !.opens = 2]))

\* io.Copy(destFile, srcFile) on the files at the keys dest and src; fail
\* tells whether the environment fails it (an I/O error before the first
\* byte is written)
ioCopy(f, dest, src, fail) ==
    IF fail THEN [Failed(f, "EIO") EXCEPT !.copied = TRUE]
    ELSE [Done([f EXCEPT ![dest].content = f[src].content], dest) EXCEPT !.copied = TRUE]

\* copyFiles(src, dest)
copyFiles(f, src, dest, fail) ==
    With(Info(f, src), LAMBDA info :
    IF info = NoInfo THEN Failed(f, "ErrFileDoesNotExist")
    ELSE With(open(f, src, "open", ownerReadMode), LAMBDA srcFile :
         IF srcFile.err # "nil" THEN srcFile
         ELSE With(open(srcFile.fs, dest, "create", info.mode), LAMBDA destFile :
              IF destFile.err # "nil" THEN destFile
              ELSE ioCopy(destFile.fs, destFile.key, srcFile.key, fail))))

(***************************************************************************)
(* The walk.  filepath.Walk keeps, for every directory it is inside, the   *)
(* names it read from that directory and has not visited yet: a frame of   *)
(* the stack.  A directory's names are read before the walk function is    *)
(* called for the directory.                                               *)
(***************************************************************************)
WalkBoth == "WalkBoth"

WalkFiles == "WalkFiles"

WalkDirs == "WalkDirs"

WalkTypes == {WalkBoth, WalkFiles, WalkDirs}

SkipDir == "SkipDir"

\* the names of S in the order of a directory listing
RECURSIVE SortNames(_)
SortNames(S) ==
    IF S = {} THEN <<>>
    ELSE With(CHOOSE x \in S : \A y \in S \ {x} : StrLess(x, y), LAMBDA m :
         <<m>> \o SortNames(S \ {m}))

ChildNames(f, key) ==
    {k[Len(k)] : k \in {k \in DOMAIN f : Len(k) = Len(key) + 1
                                         /\ SubSeq(k, 1, Len(key)) = key}}

\* readDirNames(path) of filepath.Walk
readDirNames(f, path) ==
    With(Namei(f, path), LAMBDA r :
    IF r.err = "nil" /\ f[r.key].kind = "dir" THEN SortNames(ChildNames(f, r.key))
    ELSE <<>>)

\* a walk that reads the names of a directory after it has called the walk
\* function for the directory
listedNamesAfter(before, after, path) == readDirNames(after, path)

\* the names filepath.Walk has of the directory path when it goes into it:
\* it reads them before it calls the walk function for the directory, in the
\* filesystem before, and not in the filesystem after that the call leaves
listedNames(before, after, path) == readDirNames(before, path)

\* the frames that still have a name to visit
RECURSIVE PopDone(_)
PopDone(st) ==
    IF st # <<>> /\ st[Len(st)].names = <<>> THEN PopDone(SubSeq(st, 1, Len(st) - 1))
    ELSE st

\* the walk function of Path.Walk without its test for the root
filterEntryWithRoot(p, walkType, path, isDir) ==
    IF (isDir /\ walkType = WalkFiles) \/ (~isDir /\ walkType = WalkDirs)
    THEN (IF Dirname(path) = p THEN "nil" ELSE SkipDir)
    ELSE "deliver"

\* the value the walk function of Path.Walk returns for an entry without
\* calling the walker, or "deliver" when it calls the walker
filterEntry(p, walkType, path, isDir) ==
    IF path = p THEN "nil"
    ELSE IF (isDir /\ walkType = WalkFiles) \/ (~isDir /\ walkType = WalkDirs)
    THEN (IF Dirname(path) = p THEN "nil" ELSE SkipDir)
    ELSE "deliver"

\* the walker of copyDirs for one entry
copyDirsWalker(f, src, dest, path, isDirectory, fail) ==
    With(Replace1(path, src, dest), LAMBDA newDest :
    [(IF isDirectory THEN MkdirAll(f, newDest) ELSE copyFiles(f, path, newDest, fail))
        EXCEPT !.to = newDest])

\* the walker of a caller of Walk: it returns plan.err at its plan.at-th
\* invocation and nil at every other, and leaves the filesystem alone
planWalker(f, plan, n) == IF n = plan.at THEN Failed(f, plan.err) ELSE Done(f, NoKey)

\* filepath.Walk going on to the next entry whatever the walk function
\* returned
afterEntryGoesOn(st, path, isDir, names, ret) ==
    With(Append(SubSeq(st, 1, Len(st) - 1), [st[Len(st)] EXCEPT !.names = Tail(@)]),
         LAMBDA next :
    PopDone(IF isDir THEN Append(next, [path |-> path, names |-> names]) ELSE next))

\* the stack after the entry at the top frame's first name was handled with
\* the value ret; names are the names read from the entry when it is a
\* directory
afterEntry(st, path, isDir, names, ret) ==
    With(SubSeq(st, 1, Len(st) - 1), LAMBDA below :
    With(Append(below, [st[Len(st)] EXCEPT !.names = Tail(@)]), LAMBDA next :
    IF ret = "nil"
    THEN PopDone(IF isDir THEN Append(next, [path |-> path, names |-> names]) ELSE next)
    ELSE IF ret = SkipDir THEN PopDone(IF isDir THEN next ELSE below)
    ELSE <<>>))

\* Walk dropping the error of the walk function
walkResultDropped(ret) == "nil"

\* what filepath.Walk returns when the last call of the walk function
\* returned ret
walkResult(ret) == IF ret = SkipDir THEN "nil" ELSE ret

(***************************************************************************)
(* Initial trees and the inputs of the calls.                              *)
(***************************************************************************)
Names == {<<"a">>, <<"b">>}

\* a file of an initial tree holds the text of its own path
InitFile(key) == NodeFile(JoinSegs(key), defaultFileMode \ Umask)

\* a file of an initial tree that its owner has made private
PrivateFile(key) == NodeFile(JoinSegs(key), privateFileMode)

InitDir == NodeDir(defaultDirMode \ Umask)

EmptyFS == (<<>> :> InitDir)

DirKeys(f) == {k \in DOMAIN f : f[k].kind = "dir"}

\* the trees with one node more than t
Grow(t) ==
    UNION {UNION {IF Append(d, n) \in DOMAIN t THEN {}
                  ELSE {t @@ (Append(d, n) :> InitDir),
                        t @@ (Append(d, n) :> InitFile(Append(d, n))),
                        t @@ (Append(d, n) :> PrivateFile(Append(d, n)))}
                  : n \in Names}
           : d \in DirKeys(t)}

RECURSIVE TreesOf(_)
TreesOf(n) == IF n = 0 THEN {EmptyFS} ELSE UNION {Grow(t) : t \in TreesOf(n - 1)}

Trees == UNION {TreesOf(n) : n \in 0..MaxNodes}

Errors == {"ErrVisitor", SkipDir}

Plans == {[at |-> 0, err |-> "nil"]} \cup [at : 1..MaxPlan, err : Errors]

\* the roots handed to Walk
RootInputs ==
    {<<".">>, <<"a">>, <<"a", "/">>, <<".", "/", "a">>, <<"a", "/", "a">>, <<"b">>}

\* the sources and destinations handed to CopyTo
SrcInputs ==
    {<<"a">>, <<"a", "/">>, <<".", "/", "a">>, <<"a", "/", "a">>, <<"a", "/", "b">>}

DestInputs ==
    {<<"a">>, <<"b">>, <<"b", "/">>, <<"a", "/", "a">>, <<"a", "/", "b">>,
     <<"b", "/", "a">>, <<"b", "/", "a", "/", "b">>}

(***************************************************************************)
(* The state machine: one call of Walk or of CopyTo on an initial tree.    *)
(***************************************************************************)
NoCall == [op |-> "none"]

\* no file is open
NoHandle == [flag |-> "none", path |-> <<>>, key |-> NoKey, off |-> 0, written |-> <<>>]

Init ==
    /\ fs \in Trees
    /\ fs0 = fs
    /\ pc = "idle"
    /\ call = NoCall
    /\ stack = <<>>
    /\ visited = <<>>
    /\ ncopy = 0
    /\ result = "nil"
    /\ count = 0
    /\ nlist = 0
    /\ handle = NoHandle
    /\ data = <<>>
    /\ nopen = 0

\* the next state of a call: the filesystem, the frames, the walker's
\* invocations, the byte-stream copies made, and the value returned when no
\* frame is left; no entry was counted and no directory listed yet
Outcome(f, st, vis, nc, res) ==
    [fs |-> f, stack |-> st, visited |-> vis, ncopy |-> nc,
     pc |-> IF st = <<>> THEN "done" ELSE "walk", result |-> res,
     count |-> 0, nlist |-> 0]

Becomes(o) ==
    /\ fs' = o.fs
    /\ stack' = o.stack
    /\ visited' = o.visited
    /\ ncopy' = o.ncopy
    /\ pc' = o.pc
    /\ result' = o.result
    /\ count' = o.count
    /\ nlist' = o.nlist

\* Path.Walk handing its receiver to filepath.Walk without testing it
startWalkUnchecked(f, p) == Outcome(f, <<[path |-> <<>>, names |-> <<p>>]>>, <<>>, 0, "nil")

\* Path.Walk up to the call of filepath.Walk, whose first entry is the root:
\* the frame with no directory holds the root as it was spelled
startWalk(f, p) ==
    IF ~DirExists(f, p) THEN Outcome(f, <<>>, <<>>, 0, "ErrDirDoesNotExist")
    ELSE Outcome(f, <<[path |-> <<>>, names |-> <<p>>]>>, <<>>, 0, "nil")

\* Path.Walk(walkType, walker)
Walk(p, walkType, plan) ==
    /\ pc = "idle"
    /\ call' = [op |-> "Walk", p |-> p, dest |-> <<>>, walkType |-> walkType,
                plan |-> plan, fault |-> 0, lfault |-> 0]
    /\ Becomes(startWalk(fs, p))
    /\ UNCHANGED <<fs0, handle, data, nopen>>

\* copyDirs(src, dest) up to the first entry of its walk, the source itself
copyDirs(f, src, dest) ==
    With(IF DirExists(f, dest) THEN Done(f, NoKey) ELSE MkdirAll(f, dest), LAMBDA m :
    IF m.err # "nil" THEN Outcome(m.fs, <<>>, <<>>, 0, m.err)
    ELSE startWalk(m.fs, src))

\* copy(src, dest) for a source that is a regular file
copyFile(f, src, dest, fault) ==
    With(copyFiles(f, src, IF DirExists(f, dest) THEN Join(dest, Basename(src)) ELSE dest,
                   fault = 1), LAMBDA c :
    Outcome(c.fs, <<>>, <<>>, IF c.copied THEN 1 ELSE 0, c.err))

\* copy without its test of the destination: a directory is copied onto
\* whatever the destination is
copyOverFile(f, src, dest, fault) ==
    IF FileExists(f, src) THEN copyFile(f, src, dest, fault) ELSE copyDirs(f, src, dest)

\* copy(src, dest) for a source that exists
copyExisting(f, src, dest, fault) ==
    IF FileExists(f, src) THEN copyFile(f, src, dest, fault)
    ELSE IF FileExists(f, dest) THEN Outcome(f, <<>>, <<>>, 0, "ErrPathIsDirectoryDestFile")
    ELSE copyDirs(f, src, dest)

\* copy without its test of the source
copyUnchecked(f, src, dest, fault) == copyExisting(f, src, dest, fault)

\* copy(src, dest)
copy(f, src, dest, fault) ==
    IF ~Exists(f, src) THEN Outcome(f, <<>>, <<>>, 0, "ErrNotFound")
    ELSE copyExisting(f, src, dest, fault)

\* Path.CopyTo(dest); the environment fails the fault-th byte-stream copy
CopyTo(src, dest, fault) ==
    /\ pc = "idle"
    /\ call' = [op |-> "CopyTo", p |-> src, dest |-> dest, walkType |-> WalkBoth,
                plan |-> [at |-> 0, err |-> "nil"], fault |-> fault, lfault |-> 0]
    /\ Becomes(copy(fs, src, dest, fault))
    /\ UNCHANGED <<fs0, handle, data, nopen>>

\* Path.Count(walkType) up to the first entry of its walk
startCount(f, p) ==
    IF ~DirExists(f, p) THEN Outcome(f, <<>>, <<>>, 0, "nil") ELSE startWalk(f, p)

\* Path.Count(walkType); the environment fails the lfault-th listing of a
\* directory.  Count has no error to return: result stays nil
Count(p, walkType, lfault) ==
    /\ pc = "idle"
    /\ call' = [op |-> "Count", p |-> p, dest |-> <<>>, walkType |-> walkType,
                plan |-> [at |-> 0, err |-> "nil"], fault |-> 0, lfault |-> lfault]
    /\ Becomes([startCount(fs, p) EXCEPT !.result = "nil"])
    /\ UNCHANGED <<fs0, handle, data, nopen>>

\* the walker of Count: count++ is the caller's, the walker returns nil
countWalker(f) == Done(f, NoKey)

\* the walker of the call c, invoked for the n-th time
walker(f, c, path, isDir, n, nc) ==
    IF c.op = "CopyTo" THEN copyDirsWalker(f, c.p, c.dest, path, isDir, c.fault = nc + 1)
    ELSE IF c.op = "Count" THEN countWalker(f)
    ELSE planWalker(f, c.plan, n)

\* the walk function of Path.Walk on the entry path
walkFn(f, c, path, isDir, n, nc) ==
    With(filterEntry(c.p, c.walkType, path, isDir), LAMBDA gate :
    IF gate = "deliver"
    THEN [walker(f, c, path, isDir, n, nc) EXCEPT !.key = "deliver"]
    ELSE [Failed(f, gate) EXCEPT !.key = "filtered"])

\* the path of the next entry of filepath.Walk: the root as it was given,
\* or the next name joined to its directory
entryPath(top) ==
    IF top.path = <<>> THEN Head(top.names) ELSE Join(top.path, Head(top.names))

\* the walk function of Path.Walk handed the error err of the listing of
\* the entry: it returns the error before it looks at the entry
walkFnErr(f, err) == [Failed(f, err) EXCEPT !.key = "filtered"]

\* the error of readDirNames on the nl-th directory listed: the environment
\* fails the listing the call names
listErr(c, isDir, nl) == IF isDir /\ c.lfault = nl THEN "EIO" ELSE "nil"

\* one entry of filepath.Walk: it stats the entry, reads its names when it is
\* a directory, calls the walk function and goes on as the returned value
\* tells
walkEntry(f, c, st, vis, nc) ==
    With(entryPath(st[Len(st)]), LAMBDA path :
    With(Info(f, path), LAMBDA info :
    IF info = NoInfo THEN Outcome(f, <<>>, vis, nc, "ENOENT")
    ELSE With(IF listErr(c, info.kind = "dir", nlist + 1) # "nil"
              THEN walkFnErr(f, listErr(c, info.kind = "dir", nlist + 1))
              ELSE walkFn(f, c, path, info.kind = "dir", Len(vis) + 1, nc), LAMBDA w :
         With(listedNames(f, w.fs, path), LAMBDA names :
         With(afterEntry(st, path, info.kind = "dir", names, w.err), LAMBDA st2 :
         Outcome(w.fs, st2,
                 IF w.key = "deliver"
                 THEN Append(vis, [path |-> path, isDirectory |-> info.kind = "dir",
                                   ret |-> w.err, to |-> w.to])
                 ELSE vis,
                 IF w.copied THEN nc + 1 ELSE nc,
                 walkResult(w.err)))))))

\* the walk's entry with the counters of the call: the directories listed
\* so far, and the count++ of Count's walker; Count drops the walk's error
countEntry(c, o, isDir, vis) ==
    [o EXCEPT !.nlist = IF isDir THEN nlist + 1 ELSE nlist,
              !.count = IF c.op = "Count" THEN count + (Len(o.visited) - Len(vis)) ELSE count,
              !.result = IF c.op = "Count" THEN "nil" ELSE @]

WalkStep ==
    /\ pc = "walk"
    /\ Becomes(countEntry(call, walkEntry(fs, call, stack, visited, ncopy),
                          DirExists(fs, entryPath(stack[Len(stack)])), visited))
    /\ UNCHANGED <<fs0, call, handle, data, nopen>>

Next ==
    \/ \E p \in RootInputs, walkType \in WalkTypes, plan \in Plans : Walk(p, walkType, plan)
    \/ \E src \in SrcInputs, dest \in DestInputs, fault \in 0..MaxFault :
           CopyTo(src, dest, fault)
    \/ \E p \in RootInputs, walkType \in WalkTypes, lfault \in 0..MaxListFault :
           Count(p, walkType, lfault)
    \/ WalkStep

Spec == Init /\ [][Next]_vars

(***************************************************************************)
(* The vocabulary of the properties.                                       *)
(***************************************************************************)
\* the key of the node the path p names in f
KeyAt(f, p) == Namei(f, p).key

\* the keys of the nodes strictly below the node at key k
Below(f, k) == {x \in DOMAIN f : Len(x) > Len(k) /\ SubSeq(x, 1, Len(k)) = k}

\* the tree below the node at key k: relative paths, kinds and contents
RelTree(f, k) ==
    {[rel |-> SubSeq(x, Len(k) + 1, Len(x)), kind |-> f[x].kind, content |-> f[x].content]
     : x \in Below(f, k)}

\* the invocations of the walker that named the node at key x
VisitsOf(x) == {i \in 1..Len(visited) : KeyAt(fs0, visited[i].path) = x}

\* a call of Walk with a walker that never returns an error has returned
WalkReturned(walkType) ==
    /\ pc = "done"
    /\ call.op = "Walk"
    /\ call.walkType = walkType
    /\ call.plan.at = 0
    /\ DirExists(fs0, call.p)

\* the walker was invoked exactly once for each node of S, with the right
\* isDirectory flag, and for nothing else
VisitedExactly(S) ==
    /\ \A x \in S : Cardinality(VisitsOf(x)) = 1
    /\ \A i \in 1..Len(visited) :
           /\ KeyAt(fs0, visited[i].path) \in S
           /\ visited[i].isDirectory = (fs0[KeyAt(fs0, visited[i].path)].kind = "dir")

\* a call of CopyTo has returned
CopyReturned == pc = "done" /\ call.op = "CopyTo"

(***************************************************************************)
(* C1.  A successful CopyTo of a directory to a destination that does not  *)
(* exist leaves at the destination a tree with the same relative paths,    *)
(* kinds and file contents as the source tree.                             *)
(***************************************************************************)
C1_TreeReproduced ==
    (CopyReturned /\ result = "nil" /\ DirExists(fs0, call.p) /\ ~Exists(fs0, call.dest))
        => /\ DirExists(fs, call.dest)
           /\ RelTree(fs, KeyAt(fs, call.dest)) = RelTree(fs0, KeyAt(fs0, call.p))

(***************************************************************************)
(* C2.  Walk with WalkFiles and a walker that never fails invokes the      *)
(* walker exactly once for every regular file below the root, at any       *)
(* depth, and never for a directory.                                       *)
(***************************************************************************)
C2_WalkFilesVisitsEveryFile ==
    WalkReturned(WalkFiles)
        => /\ result = "nil"
           /\ VisitedExactly({x \in Below(fs0, KeyAt(fs0, call.p)) : fs0[x].kind = "file"})

(***************************************************************************)
(* C3.  Walk with WalkDirs and a walker that never fails invokes the       *)
(* walker exactly once for every directory below the root and never for a  *)
(* file, whatever files the tree holds.                                    *)
(***************************************************************************)
C3_WalkDirsVisitsEveryDir ==
    WalkReturned(WalkDirs)
        => /\ result = "nil"
           /\ VisitedExactly({x \in Below(fs0, KeyAt(fs0, call.p)) : fs0[x].kind = "dir"})

(***************************************************************************)
(* C4.  Walk with WalkBoth and a walker that never fails invokes the       *)
(* walker exactly once for every file and every directory strictly below   *)
(* the root, with the right isDirectory flag, and never for the root.      *)
(***************************************************************************)
C4_WalkBothVisitsAll ==
    WalkReturned(WalkBoth)
        => /\ result = "nil"
           /\ VisitedExactly(Below(fs0, KeyAt(fs0, call.p)))
           /\ VisitsOf(KeyAt(fs0, call.p)) = {}

\* a walk of a tree with a file two levels down and a directory has returned
C4_Witness ==
    /\ WalkReturned(WalkBoth)
    /\ Len(visited) >= 3
    /\ \E i, j \in 1..Len(visited) :
           /\ visited[i].isDirectory
           /\ ~visited[j].isDirectory
           /\ Len(KeyAt(fs0, visited[j].path)) >= Len(KeyAt(fs0, call.p)) + 2

C6_FileIntoDirectory ==
    (CopyReturned /\ result = "nil" /\ FileExists(fs0, call.p) /\ DirExists(fs0, call.dest))
        => /\ DirExists(fs, call.dest)
           /\ FileExists(fs, Join(call.dest, Basename(call.p)))
           /\ Info(fs, Join(call.dest, Basename(call.p))).content
                  = Info(fs0, call.p).content

(***************************************************************************)
(* C7.  A successful CopyTo of a regular file to a destination that is not *)
(* an existing directory leaves at exactly the destination path a file     *)
(* with the content the source had.                                        *)
(***************************************************************************)
C7_FileToPath ==
    (CopyReturned /\ result = "nil" /\ FileExists(fs0, call.p) /\ ~DirExists(fs0, call.dest))
        => /\ FileExists(fs, call.dest)
           /\ Info(fs, call.dest).content = Info(fs0, call.p).content

(***************************************************************************)
(* C8.  CopyTo of a source that does not exist returns ErrNotFound and     *)
(* leaves the whole filesystem as it was, whatever the destination.        *)
(***************************************************************************)
C8_MissingSourceNotFound ==
    (call.op = "CopyTo" /\ ~Exists(fs0, call.p))
        => pc = "done" /\ result = "ErrNotFound" /\ fs = fs0

\* a missing source was copied to a destination whose directory is missing
C8_Witness ==
    /\ CopyReturned
    /\ ~Exists(fs0, call.p)
    /\ ~Exists(fs0, Parent(call.dest))
    /\ result = "ErrNotFound"

(***************************************************************************)
(* C9.  CopyTo of a directory to a destination that is a regular file      *)
(* returns ErrPathIsDirectoryDestFile before anything is created or        *)
(* copied.                                                                 *)
(***************************************************************************)
C9_DirectoryOntoFile ==
    (call.op = "CopyTo" /\ DirExists(fs0, call.p) /\ FileExists(fs0, call.dest))
        => pc = "done" /\ result = "ErrPathIsDirectoryDestFile" /\ fs = fs0 /\ visited = <<>>

\* a directory that is not empty was copied onto a regular file
C9_Witness ==
    /\ CopyReturned
    /\ DirExists(fs0, call.p)
    /\ Below(fs0, KeyAt(fs0, call.p)) # {}
    /\ FileExists(fs0, call.dest)
    /\ result = "ErrPathIsDirectoryDestFile"

(***************************************************************************)
(* C10.  When the copy of a tree fails at an entry, the walk stops there   *)
(* and CopyTo returns that failure: the walker is not invoked for a later  *)
(* entry, and what it made for the entries before is still there.          *)
(***************************************************************************)
C10_CopyStopsAtFailure ==
    call.op = "CopyTo"
        => \A i \in 1..Len(visited) :
               /\ visited[i].ret # "nil"
                      => i = Len(visited) /\ pc = "done" /\ result = visited[i].ret
               /\ visited[i].ret = "nil"
                      => IF visited[i].isDirectory THEN DirExists(fs, visited[i].to)
                         ELSE FileExists(fs, visited[i].to)

\* a copy failed at an entry after it had made another, with a further
\* entry of the source left
C10_Witness ==
    /\ CopyReturned
    /\ result # "nil"
    /\ Len(visited) >= 2
    /\ visited[Len(visited)].ret = result
    /\ visited[1].ret = "nil"
    /\ Len(visited) < Cardinality(Below(fs0, KeyAt(fs0, call.p)))

(***************************************************************************)
(* C11.  After a successful CopyTo of a regular file, the file written has *)
(* the permission bits the source has, whether the copy created it or it   *)
(* was there before the copy.                                              *)
(***************************************************************************)
C11_ModePreserved ==
    (CopyReturned /\ result = "nil" /\ FileExists(fs0, call.p))
        => With(IF DirExists(fs0, call.dest) THEN Join(call.dest, Basename(call.p))
                ELSE call.dest, LAMBDA target :
           Info(fs, target).mode = Info(fs0, call.p).mode)

(***************************************************************************)
(* C12.  Walk on a root that is not a directory, because nothing is there  *)
(* or because a regular file is, returns ErrDirDoesNotExist at once: the   *)
(* walker is never invoked and nothing is changed.                         *)
(***************************************************************************)
C12_WalkNotADirectory ==
    (call.op = "Walk" /\ ~DirExists(fs0, call.p))
        => pc = "done" /\ result = "ErrDirDoesNotExist" /\ visited = <<>> /\ fs = fs0

\* Walk was called on a regular file that lies in a directory with other
\* entries, with a walker that fails at its first invocation
C12_Witness ==
    /\ pc = "done"
    /\ call.op = "Walk"
    /\ FileExists(fs0, call.p)
    /\ Cardinality(DOMAIN fs0) >= 3
    /\ call.plan.at = 1
    /\ result = "ErrDirDoesNotExist"

(***************************************************************************)
(* C13.  Count reports no error; it returns zero when the root is not a    *)
(* directory and when the walk under it fails at any point, and the number *)
(* of entries the walk delivered when the walk completes.                  *)
(***************************************************************************)
\* a call of Count has returned
CountReturned == pc = "done" /\ call.op = "Count"

\* the walk under the call of Count failed: the listing the environment
\* fails was asked for
CountWalkFailed == call.lfault \in 1..nlist

C13_CountZeroOnFailure ==
    CountReturned
        => /\ result = "nil"
           /\ ~DirExists(fs0, call.p) => count = 0
           /\ CountWalkFailed => count = 0
           /\ (DirExists(fs0, call.p) /\ ~CountWalkFailed) => count = Len(visited)

(***************************************************************************)
(* The file operations: Open, Create, Append and ReadAll called one after  *)
(* the other on one path, and writes through the handle the last of them   *)
(* returned.  The caller closes a handle before it opens the path again,   *)
(* and data holds the bytes of a ReadAll until the next call.              *)
(***************************************************************************)
Bytes == {"x", "y"}

\* the byte sequences handed to Write
Payloads == UNION {[1..n -> Bytes] : n \in 0..MaxWrite}

\* trees with a directory whose name is one blank
BlankTrees == {t @@ (<< <<" ">> >> :> InitDir) : t \in TreesOf(0) \cup TreesOf(1)}

FileTrees == UNION {TreesOf(n) : n \in 0..MaxFileNodes} \cup BlankTrees

\* the paths handed to Open, Create, Append and ReadAll
FilePaths ==
    {<<>>, <<" ">>, <<"a">>, <<"a", "/">>, <<"a", "/", "b">>, <<".", "/", "b">>,
     <<"b", "/", "a", "/", "b">>, <<"b", "/", ".", ".", "/", "a">>}

FileInit ==
    /\ fs \in FileTrees
    /\ fs0 = fs
    /\ pc = "idle"
    /\ call = NoCall
    /\ stack = <<>>
    /\ visited = <<>>
    /\ ncopy = 0
    /\ result = "nil"
    /\ count = 0
    /\ nlist = 0
    /\ handle = NoHandle
    /\ data = <<>>
    /\ nopen = 0

\* Path.Open without its test that the path is a regular file
pathOpenUnchecked(f, p) == open(f, p, "open", defaultFileMode)

\* Path.Open
pathOpen(f, p) ==
    IF ~FileExists(f, p) THEN Failed(f, "ErrFileDoesNotExist")
    ELSE open(f, p, "open", defaultFileMode)

\* Path.Create
pathCreate(f, p) == open(f, p, "create", defaultFileMode)

\* Path.Append
pathAppend(f, p) == open(f, p, "append", defaultFileMode)

\* Path.ReadAll up to the reading of the bytes: ioutil.ReadFile opens the file
pathReadAll(f, p) ==
    IF ~FileExists(f, p) THEN Failed(f, "ErrFileDoesNotExist")
    ELSE [OpenRead(f, p) EXCEPT !.opens = 1]

\* the handle an opening routine returned with r; written are the bytes
\* written through it so far
newHandle(r, p, flag) ==
    IF r.err # "nil" THEN NoHandle
    ELSE [flag |-> flag, path |-> p, key |-> r.key, off |-> 0, written |-> <<>>]

\* a call on the path p that returned r
FileCall(op, p, r, flag) ==
    /\ pc \in {"idle", "file"}
    /\ pc = "file" => p = call.p
    /\ call' = [op |-> op, p |-> p]
    /\ pc' = "file"
    /\ fs' = r.fs
    /\ result' = r.err
    /\ nopen' = r.opens
    /\ handle' = newHandle(r, p, flag)
    /\ data' = <<>>
    /\ UNCHANGED <<fs0, stack, visited, ncopy, count, nlist>>

Open(p) == FileCall("Open", p, pathOpen(fs, p), "open")

Create(p) == FileCall("Create", p, pathCreate(fs, p), "create")

AppendFile(p) == FileCall("Append", p, pathAppend(fs, p), "append")

\* Path.ReadAll; the handle of an earlier call stays as it is
ReadAll(p) ==
    /\ pc \in {"idle", "file"}
    /\ pc = "file" => p = call.p
    /\ call' = [op |-> "ReadAll", p |-> p]
    /\ pc' = "file"
    /\ result' = pathReadAll(fs, p).err
    /\ nopen' = pathReadAll(fs, p).opens
    /\ data' = IF pathReadAll(fs, p).err = "nil" THEN fs[pathReadAll(fs, p).key].content
               ELSE <<>>
    /\ UNCHANGED <<fs, fs0, handle, stack, visited, ncopy, count, nlist>>

\* content with the bytes B written at the offset off
writeAt(content, off, B) ==
    SubSeq(content, 1, off) \o B \o SubSeq(content, off + Len(B) + 1, Len(content))

\* (*os.File).Write(B) on the handle h: at the end of the file when it was
\* opened with O_APPEND, at the handle's offset otherwise
fileWrite(f, h, B) ==
    IF h.flag = "append" THEN [f EXCEPT ![h.key].content = @ \o B]
    ELSE [f EXCEPT ![h.key].content = writeAt(@, h.off, B)]

\* the caller writes B through the handle of the last Create or Append
Write(B) ==
    /\ pc = "file"
    /\ handle.flag \in {"create", "append"}
    /\ Len(handle.written) + Len(B) <= MaxWrite
    /\ Len(fs[handle.key].content) + Len(B) <= MaxSize
    /\ call' = [op |-> "Write", p |-> call.p]
    /\ fs' = fileWrite(fs, handle, B)
    /\ handle' = [handle EXCEPT !.off = @ + Len(B), !.written = @ \o B]
    /\ result' = "nil"
    /\ data' = <<>>
    /\ UNCHANGED <<pc, fs0, nopen, stack, visited, ncopy, count, nlist>>

FileNext ==
    \/ \E p \in FilePaths : Open(p)
    \/ \E p \in FilePaths : Create(p)
    \/ \E p \in FilePaths : AppendFile(p)
    \/ \E p \in FilePaths : ReadAll(p)
    \/ \E B \in Payloads : Write(B)

FileSpec == FileInit /\ [][FileNext]_vars

(***************************************************************************)
(* The vocabulary of the properties of the file operations.  A step that   *)
(* ends with call.op = "Create" is a call of Create: the unprimed          *)
(* variables are the state the call found, the primed ones the state it    *)
(* left.                                                                   *)
(***************************************************************************)
\* the call the step makes is op on a path for which Pre holds before
Calls(op, Pre(_)) == call'.op = op /\ Pre(call'.p)

\* the step changes no node that was there before it, except the node at key
KeepsAllBut(key) == \A k \in DOMAIN fs : k # key => (k \in DOMAIN fs' /\ fs'[k] = fs[k])

\* the proper ancestors of the cleaned path p, as paths
Ancestors(p) ==
    With(Split(Clean(p)), LAMBDA segs :
    {JoinSegs(SubSeq(segs, 1, i)) : i \in 1..(Len(segs) - 1)})

\* p is written without a ".." element
NoDotDot(p) == \A i \in 1..Len(Split(p)) : Split(p)[i] # DotDot

C15_EmptyThenDirectory ==
    [][\A op \in {"Create", "Append"} :
           /\ Calls(op, LAMBDA p : Empty(p))
                  => result' = "ErrPathIsEmpty" /\ nopen' = 0 /\ fs' = fs
           /\ Calls(op, LAMBDA p : ~Empty(p) /\ DirExists(fs, p))
                  => result' = "ErrPathIsDirectory" /\ nopen' = 0 /\ fs' = fs]_vars

\* Append was called on a blank path that names an existing directory
C15_Witness ==
    /\ call.op = "Append"
    /\ Empty(call.p)
    /\ DirExists(fs, call.p)
    /\ result = "ErrPathIsEmpty"
    /\ nopen = 0

(***************************************************************************)
(* C16.  ReadAll on a path returns exactly the bytes written through the   *)
(* handle of the last Create on that path: Create truncates, so no byte    *)
(* the file held before, from an earlier Create or from anyone else, is    *)
(* left, also when fewer bytes are written than the file held.             *)
(***************************************************************************)
C16_CreateWriteRead ==
    (call.op = "ReadAll" /\ handle.flag = "create" /\ handle.path = call.p)
        => result = "nil" /\ data = handle.written

\* bytes were written through the handle of a Create on a file that held
\* more bytes than were written, and were read back
C16_Witness ==
    /\ call.op = "ReadAll"
    /\ handle.flag = "create"
    /\ handle.path = call.p
    /\ FileExists(fs0, call.p)
    /\ Len(data) >= 1
    /\ Len(data) < Len(Info(fs0, call.p).content)
    /\ data = handle.written

(***************************************************************************)
(* Path joining as a function of its fragments: the fragments a, b and c   *)
(* are drawn at the start, a.JoinP(b).JoinP(c) is computed into data and   *)
(* a.JoinP(b.JoinP(c)) into result.                                        *)
(***************************************************************************)
FragChars == {"a", ".", Sep}

\* the non-empty relative fragments of at most MaxFrag characters: "a",
\* "a/", "a//", "./a", "..", "../", "a/." and so on
Fragments ==
    {s \in UNION {[1..n -> FragChars] : n \in 1..MaxFrag} : s[1] # Sep}

JoinInit ==
    /\ call \in [op : {"JoinP"}, a : Fragments, b : Fragments, c : Fragments]
    /\ pc = "idle"
    /\ data = <<>>
    /\ result = <<>>
    /\ fs = EmptyFS
    /\ fs0 = EmptyFS
    /\ stack = <<>>
    /\ visited = <<>>
    /\ ncopy = 0
    /\ count = 0
    /\ nlist = 0
    /\ handle = NoHandle
    /\ nopen = 0

\* a.JoinP(b).JoinP(c)
JoinLeftFirst ==
    /\ pc = "idle"
    /\ data' = JoinP(JoinP(call.a, call.b), call.c)
    /\ pc' = "left"
    /\ UNCHANGED <<fs, fs0, call, stack, visited, ncopy, result, count, nlist, handle, nopen>>

\* a.JoinP(b.JoinP(c))
JoinRightFirst ==
    /\ pc = "left"
    /\ result' = JoinP(call.a, JoinP(call.b, call.c))
    /\ pc' = "done"
    /\ UNCHANGED <<fs, fs0, call, stack, visited, ncopy, data, count, nlist, handle, nopen>>

JoinNext == JoinLeftFirst \/ JoinRightFirst

JoinSpec == JoinInit /\ [][JoinNext]_vars

(***************************************************************************)
(* C17.  For all non-empty relative fragments a, b and c, with trailing or *)
(* duplicate separators or not, a.JoinP(b).JoinP(c) is the same path as    *)
(* a.JoinP(b.JoinP(c)).                                                    *)
(***************************************************************************)
C17_JoinAssociative == pc = "done" => data = result

\* both joins were made of a fragment with a duplicate separator, a fragment
\* with a trailing separator and a fragment that goes up
C17_Witness ==
    /\ pc = "done"
    /\ call.a = <<"a", Sep, Sep>>
    /\ call.b = <<".", ".", Sep>>
    /\ call.c = <<"a", Sep>>
    /\ data = <<"a">>
    /\ result = <<"a">>

(***************************************************************************)
(* C18.  In the copy of a tree, for every entry the walker is invoked for  *)
(* and every spelling of the source root, the destination path computed    *)
(* for the entry is the destination root followed by the entry's path      *)
(* relative to the source root.                                            *)
(***************************************************************************)
\* the path of the node at key x relative to the node at key root
RelPath(root, x) == JoinSegs(SubSeq(x, Len(root) + 1, Len(x)))

C18_DestinationUnderRoot ==
    call.op = "CopyTo"
        => \A i \in 1..Len(visited) :
               Clean(visited[i].to)
                   = Join(call.dest, RelPath(KeyAt(fs0, call.p), KeyAt(fs, visited[i].path)))

(***************************************************************************)
(* C19.  When CopyTo returns, with an error or without, every regular file *)
(* at or below the source holds the content it held before the call,       *)
(* whatever the destination is.                                            *)
(***************************************************************************)
C19_SourceUnchanged ==
    (CopyReturned /\ Exists(fs0, call.p))
        => \A x \in {KeyAt(fs0, call.p)} \cup Below(fs0, KeyAt(fs0, call.p)) :
               fs0[x].kind = "file" => (x \in DOMAIN fs /\ fs[x].content = fs0[x].content)

(***************************************************************************)
(* C20.  Every call of CopyTo returns, whatever the source tree and the    *)
(* destination are, also when the destination lies inside the source and   *)
(* the walk comes to entries the copy has made.  A step of the walk        *)
(* handles one entry, and every entry but the root is handed to the        *)
(* walker: the walk returns because the walker is invoked at most          *)
(* (n + d + 1)^2 times, for a source with n entries below it and a         *)
(* destination path of d elements, and because a walk that has not         *)
(* returned has an entry to handle.                                        *)
(***************************************************************************)
\* the number of entries below the source before the call
SourceSize == IF Exists(fs0, call.p) THEN Cardinality(Below(fs0, KeyAt(fs0, call.p))) ELSE 0

\* the largest number of invocations of the walker of a copy
CopyBound ==
    (SourceSize + Len(Components(call.dest)) + 1)
        * (SourceSize + Len(Components(call.dest)) + 1)

RECURSIVE walkToEnd(_, _)
walkToEnd(c, o) ==
    IF o.pc = "done" THEN o
    ELSE walkToEnd(c, walkEntry(o.fs, c, o.stack, o.visited, o.ncopy))

\* the nodes of f the invocations vis of the walker named, each with the
\* isDirectory flag it was delivered with
Delivered(f, vis) ==
    {[key |-> KeyAt(f, vis[i].path), isDirectory |-> vis[i].isDirectory] : i \in 1..Len(vis)}

\* what the call c of Walk delivers on f when its root is spelled p
DeliveredFrom(f, c, p) ==
    Delivered(f, walkToEnd([c EXCEPT !.p = p], startWalk(f, p)).visited)

C21_SpellingIrrelevant ==
    (/\ pc = "done"
     /\ call.op = "Walk"
     /\ call.plan.at = 0
     /\ DirExists(fs0, call.p))
        => Delivered(fs0, visited) = DeliveredFrom(fs0, call, Clean(call.p))

====
